---- MODULE Spec2Model ----
(***************************************************************************)
(* Model of the OHLCV indicator engine                                     *)
(* (services/fetcher_ohlcv/helpers/calculate_indicators.py) and its caller *)
(* (services/fetcher_ohlcv/main.py).                                       *)
(*                                                                         *)
(* Numbers are exact: a float64 is modelled as NaN, +inf, -inf or a        *)
(* rational sign * n / d whose numerator and denominator are unbounded     *)
(* naturals (digit sequences), so that the EMA / MACD recurrences are      *)
(* followed without rounding and without overflow.  The sign of a zero is  *)
(* not modelled (see rsi14 below for the one place where the code meets    *)
(* -0.0).                                                                  *)
(***************************************************************************)
EXTENDS Integers, Sequences, FiniteSets, TLC

(***************************************************************************)
(* Unbounded naturals: little-endian digit sequences in base Base, without *)
(* leading zeros; <<>> is 0.                                               *)
(***************************************************************************)
Base == 100 * 100

TailOrEmpty(a) == IF a = <<>> THEN <<>> ELSE Tail(a)

RECURSIVE MagAdd(_, _, _)
MagAdd(a, b, c) ==
  IF b = <<>> /\ c = 0 THEN a
  ELSE IF a = <<>> /\ c = 0 THEN b
  ELSE IF a = <<>> /\ b = <<>> THEN <<c>>
  ELSE LET x == IF a = <<>> THEN 0 ELSE Head(a)
           y == IF b = <<>> THEN 0 ELSE Head(b)
           t == x + y + c
       IN  <<t % Base>> \o MagAdd(TailOrEmpty(a), TailOrEmpty(b), t \div Base)

RECURSIVE Trim(_)
Trim(a) ==
  IF a = <<>> THEN a
  ELSE IF a[Len(a)] = 0 THEN Trim(SubSeq(a, 1, Len(a) - 1)) ELSE a

RECURSIVE MagSubRaw(_, _, _)
MagSubRaw(a, b, c) ==
  IF b = <<>> /\ c = 0 THEN a
  ELSE LET y == IF b = <<>> THEN 0 ELSE Head(b)
           t == Head(a) - y - c
       IN  IF t < 0 THEN <<t + Base>> \o MagSubRaw(Tail(a), TailOrEmpty(b), 1)
                    ELSE <<t>> \o MagSubRaw(Tail(a), TailOrEmpty(b), 0)

\* a - b for a >= b
MagSub(a, b) == Trim(MagSubRaw(a, b, 0))

RECURSIVE MagCmpAt(_, _, _)
MagCmpAt(a, b, i) ==
  IF i = 0 THEN 0
  ELSE IF a[i] < b[i] THEN -1
  ELSE IF a[i] > b[i] THEN 1
  ELSE MagCmpAt(a, b, i - 1)

\* -1, 0, 1 as a < b, a = b, a > b
MagCmp(a, b) ==
  IF Len(a) < Len(b) THEN -1
  ELSE IF Len(a) > Len(b) THEN 1
  ELSE MagCmpAt(a, b, Len(a))

RECURSIVE MagMulSmall(_, _, _)
MagMulSmall(a, k, c) ==
  IF a = <<>> THEN (IF c = 0 THEN <<>> ELSE <<c>>)
  ELSE LET t == Head(a) * k + c
       IN  <<t % Base>> \o MagMulSmall(Tail(a), k, t \div Base)

RECURSIVE MagMul(_, _)
MagMul(a, b) ==
  IF a = <<>> \/ b = <<>> THEN <<>>
  ELSE IF b = <<1>> THEN a
  ELSE IF a = <<1>> THEN b
  ELSE LET hi == MagMul(a, Tail(b))
       IN  MagAdd(MagMulSmall(a, Head(b), 0),
                  IF hi = <<>> THEN <<>> ELSE <<0>> \o hi, 0)

RECURSIVE MagModAt(_, _, _, _)
MagModAt(a, k, i, r) ==
  IF i = 0 THEN r ELSE MagModAt(a, k, i - 1, (r * Base + a[i]) % k)

\* a mod k for a small k
MagModSmall(a, k) == MagModAt(a, k, Len(a), 0)

RECURSIVE MagDivAt(_, _, _, _)
MagDivAt(a, k, i, r) ==
  IF i = 0 THEN <<>>
  ELSE LET t == r * Base + a[i]
       IN  MagDivAt(a, k, i - 1, t % k) \o <<t \div k>>

\* a div k for a small k
MagDivSmall(a, k) == Trim(MagDivAt(a, k, Len(a), 0))

RECURSIVE MagOfNat(_)
MagOfNat(n) == IF n = 0 THEN <<>> ELSE <<n % Base>> \o MagOfNat(n \div Base)

\* The primes of the smoothing factors 2/13, 2/27, 2/10, 1/14 and of small
\* window counts: a fraction is kept free of these common factors (it need
\* not be in lowest terms: values are compared by cross-multiplication).
SmallPrimes == <<2, 3, 5, 7, 13>>

RECURSIVE Strip(_, _, _)
Strip(n, d, ps) ==
  IF ps = <<>> \/ d = <<1>> THEN <<n, d>>
  ELSE IF MagModSmall(d, Head(ps)) = 0 /\ MagModSmall(n, Head(ps)) = 0
       THEN Strip(MagDivSmall(n, Head(ps)), MagDivSmall(d, Head(ps)), ps)
       ELSE Strip(n, d, Tail(ps))

(***************************************************************************)
(* float64 values: [k, s, n, d] with k in {"nan", "inf", "fin"}, s the     *)
(* sign in {-1, 0, 1}, n / d the magnitude.                                *)
(***************************************************************************)
NaN == [k |-> "nan", s |-> 0, n |-> <<>>, d |-> <<1>>]
Inf(sg) == [k |-> "inf", s |-> sg, n |-> <<>>, d |-> <<1>>]
Zero == [k |-> "fin", s |-> 0, n |-> <<>>, d |-> <<1>>]
One == [k |-> "fin", s |-> 1, n |-> <<1>>, d |-> <<1>>]

FinOf(sg, nd) == [k |-> "fin", s |-> sg, n |-> nd[1], d |-> nd[2]]
Fin(sg, n, d) ==
  IF n = <<>> \/ sg = 0 THEN Zero ELSE FinOf(sg, Strip(n, d, SmallPrimes))

Abs(i) == IF i < 0 THEN -i ELSE i
Sgn(i) == IF i < 0 THEN -1 ELSE IF i > 0 THEN 1 ELSE 0

\* the float p / q for integers p and q > 0
Frac(p, q) == Fin(Sgn(p), MagOfNat(Abs(p)), MagOfNat(q))
FromInt(i) == Frac(i, 1)

IsNaN(x) == x.k = "nan"
IsFin(x) == x.k = "fin"
IsInf(x) == x.k = "inf"

\* -1, 0, 1 for two finite values
CmpFin(x, y) ==
  IF x.s # y.s THEN (IF x.s < y.s THEN -1 ELSE 1)
  ELSE IF x.s = 0 THEN 0
  ELSE IF x.d = y.d THEN x.s * MagCmp(x.n, y.n)
  ELSE x.s * MagCmp(MagMul(x.n, y.d), MagMul(y.n, x.d))

\* -1, 0, 1 for two values neither of which is NaN
Cmp(x, y) ==
  IF IsInf(x) THEN (IF IsInf(y) /\ y.s = x.s THEN 0 ELSE x.s)
  ELSE IF IsInf(y) THEN -y.s
  ELSE CmpFin(x, y)

\* IEEE comparisons: false as soon as an operand is NaN
Le(x, y) == ~IsNaN(x) /\ ~IsNaN(y) /\ Cmp(x, y) <= 0
Ge(x, y) == ~IsNaN(x) /\ ~IsNaN(y) /\ Cmp(x, y) >= 0
Lt(x, y) == ~IsNaN(x) /\ ~IsNaN(y) /\ Cmp(x, y) = -1
\* a plausible slip: x > y written as not (x <= y), true on NaN
Gt_not_le(x, y) == ~Le(x, y)
Gt(x, y) == ~IsNaN(x) /\ ~IsNaN(y) /\ Cmp(x, y) = 1
Ne(x, y) == IsNaN(x) \/ IsNaN(y) \/ Cmp(x, y) # 0

\* the same float (NaN is the same as NaN): equality of stored values
Same(x, y) ==
  \/ IsNaN(x) /\ IsNaN(y)
  \/ ~IsNaN(x) /\ ~IsNaN(y) /\ Cmp(x, y) = 0

Neg(x) == [x EXCEPT !.s = -x.s]

\* xs * xn / dd + ys * yn / dd, with c the order of the magnitudes xn, yn
AddOrdered(c, xs, xn, ys, yn, dd) ==
  Fin(IF xs = ys \/ c = 1 THEN xs ELSE ys,
      IF xs = ys THEN MagAdd(xn, yn, 0)
      ELSE IF c = 1 THEN MagSub(xn, yn) ELSE MagSub(yn, xn),
      dd)

AddMag(xs, xn, ys, yn, dd) == AddOrdered(MagCmp(xn, yn), xs, xn, ys, yn, dd)

AddFin(x, y) ==
  IF x.s = 0 THEN y
  ELSE IF y.s = 0 THEN x
  ELSE AddMag(x.s, IF x.d = y.d THEN x.n ELSE MagMul(x.n, y.d),
              y.s, IF x.d = y.d THEN y.n ELSE MagMul(y.n, x.d),
              IF x.d = y.d THEN x.d ELSE MagMul(x.d, y.d))

Add(x, y) ==
  IF IsNaN(x) \/ IsNaN(y) THEN NaN
  ELSE IF IsInf(x) THEN (IF IsInf(y) /\ y.s # x.s THEN NaN ELSE x)
  ELSE IF IsInf(y) THEN y
  ELSE AddFin(x, y)

Sub(x, y) == Add(x, Neg(y))

Mul(x, y) ==
  IF IsNaN(x) \/ IsNaN(y) THEN NaN
  ELSE IF IsInf(x) \/ IsInf(y)
       THEN (IF x.s = 0 \/ y.s = 0 THEN NaN ELSE Inf(x.s * y.s))
  ELSE Fin(x.s * y.s, MagMul(x.n, y.n), MagMul(x.d, y.d))

\* a plausible slip: a zero denominator guarded into NaN
Div_zero_nan(x, y) ==
  IF IsNaN(x) \/ IsNaN(y) THEN NaN
  ELSE IF IsInf(x) THEN (IF IsInf(y) THEN NaN
                         ELSE Inf(x.s * (IF y.s = 0 THEN 1 ELSE y.s)))
  ELSE IF IsInf(y) THEN Zero
  ELSE IF y.s = 0 THEN NaN
  ELSE Fin(x.s * y.s, MagMul(x.n, y.d), MagMul(x.d, y.n))

\* float division: x / 0 is +-inf, 0 / 0 is NaN
Div(x, y) ==
  IF IsNaN(x) \/ IsNaN(y) THEN NaN
  ELSE IF IsInf(x) THEN (IF IsInf(y) THEN NaN
                         ELSE Inf(x.s * (IF y.s = 0 THEN 1 ELSE y.s)))
  ELSE IF IsInf(y) THEN Zero
  ELSE IF y.s = 0 THEN (IF x.s = 0 THEN NaN ELSE Inf(x.s))
  ELSE Fin(x.s * y.s, MagMul(x.n, y.d), MagMul(x.d, y.n))

(***************************************************************************)
(* std(ddof=0) is the square root of a rational variance.  A value         *)
(* r + c * sqrt(v) (r, v rational, v >= 0, c an integer) is kept as the    *)
(* record [k |-> "surd", r, c, v]: std20 is 0 + 1 * sqrt(var20) and the    *)
(* Bollinger bands are sma20 +- 2 * sqrt(var20).                           *)
(***************************************************************************)
Surd(r, c, v) ==
  IF IsNaN(r) \/ IsNaN(v) THEN NaN ELSE [k |-> "surd", r |-> r, c |-> c, v |-> v]

IsSurd(x) == x.k = "surd"
Sqrt(v) == Surd(Zero, 1, v)
\* k * y and x + y, x - y for a float x and a float or surd y
VScale(k, y) ==
  IF IsSurd(y) THEN Surd(Mul(FromInt(k), y.r), k * y.c, y.v) ELSE Mul(FromInt(k), y)
VAdd(x, y) == IF IsSurd(y) THEN Surd(Add(x, y.r), y.c, y.v) ELSE Add(x, y)
VSub(x, y) == IF IsSurd(y) THEN Surd(Sub(x, y.r), -y.c, y.v) ELSE Sub(x, y)

\* -1, 0, 1 for a finite float x against the surd y:
\* x - r against c * sqrt(v), by signs and then by squares
\* (dx the difference x - r, sg the sign of c * sqrt(v))
CmpSurdAt(dx, sg, y) ==
  IF dx.s # sg THEN (IF dx.s < sg THEN -1 ELSE 1)
  ELSE IF sg = 0 THEN 0
  ELSE sg * CmpFin(Mul(dx, dx), Mul(FromInt(y.c * y.c), y.v))

CmpSurd(x, y) ==
  CmpSurdAt(Sub(x, y.r), Sgn(y.c) * (IF y.v.s > 0 THEN 1 ELSE 0), y)

\* the comparisons of two series cells (the right one may be a surd)
\* a plausible slip: a cross test with >= in place of >
VGt_or_equal(x, y) ==
  IF IsSurd(y) THEN ~IsNaN(x) /\ CmpSurd(x, y) >= 0 ELSE Ge(x, y)
VGt(x, y) == IF IsSurd(y) THEN ~IsNaN(x) /\ CmpSurd(x, y) = 1 ELSE Gt(x, y)
VLt(x, y) == IF IsSurd(y) THEN ~IsNaN(x) /\ CmpSurd(x, y) = -1 ELSE Lt(x, y)
VGe(x, y) == IF IsSurd(y) THEN ~IsNaN(x) /\ CmpSurd(x, y) >= 0 ELSE Ge(x, y)
\* a plausible slip: x <= y written as not (x > y), true on NaN
VLe_not_gt(x, y) == ~VGt(x, y)
VLe(x, y) == IF IsSurd(y) THEN ~IsNaN(x) /\ CmpSurd(x, y) <= 0 ELSE Le(x, y)

\* the same stored value, cell by cell
VSame(x, y) ==
  IF IsSurd(x) /\ IsSurd(y) THEN Same(x.r, y.r) /\ x.c = y.c /\ Same(x.v, y.v)
  ELSE IF IsSurd(x) THEN ~IsNaN(y) /\ IsFin(y) /\ CmpSurd(y, x) = 0
  ELSE IF IsSurd(y) THEN ~IsNaN(x) /\ IsFin(x) /\ CmpSurd(x, y) = 0
  ELSE Same(x, y)

(***************************************************************************)
(* pandas Series operations; a Series is a sequence of cells.              *)
(***************************************************************************)
\* a column is built cell by cell and stored as a plain sequence
Col(f) == SubSeq(f, 1, Len(f))

\* a plausible slip: the shift taken the other way, row t reads row t + p
shift_lookahead(x, p) ==
  Col([i \in 1..Len(x) |-> IF i + p <= Len(x) THEN x[i + p] ELSE NaN])

\* Series.shift(p): row t holds the value of row t - p, the first p rows NaN
shift(x, p) == Col([i \in 1..Len(x) |-> IF i > p THEN x[i - p] ELSE NaN])

\* Series.diff(): x - x.shift(1)
diff(x) == LET prev == shift(x, 1) IN Col([i \in 1..Len(x) |-> Sub(x[i], prev[i])])

\* Series.clip(lower=0) and Series.clip(upper=0): NaN stays NaN
clip_lower0(x) ==
  Col([i \in 1..Len(x) |-> IF IsNaN(x[i]) THEN NaN
                           ELSE IF Lt(x[i], Zero) THEN Zero ELSE x[i]])
clip_upper0(x) ==
  Col([i \in 1..Len(x) |-> IF IsNaN(x[i]) THEN NaN
                           ELSE IF Gt(x[i], Zero) THEN Zero ELSE x[i]])

\* Series.ffill(): a NaN takes the last value before it, leading NaN stay
RECURSIVE ffillFrom(_, _, _)
ffillFrom(x, j, last) ==
  IF j > Len(x) THEN <<>>
  ELSE LET cur == IF IsNaN(x[j]) THEN last ELSE x[j]
       IN  <<cur>> \o ffillFrom(x, j + 1, cur)
ffill(x) == ffillFrom(x, 1, NaN)

(* Series.ewm(alpha, adjust=False).mean(), pandas' ewm aggregation with     *)
(* ignore_na=False: the state is the running average `weighted` and the    *)
(* weight old_wt of that average.  A NaN row only ages the average         *)
(* (old_wt shrinks) and the row's output is the average carried forward;   *)
(* the next observation is blended with the renormalised weights.  Before  *)
(* the first observation the output is NaN.                                *)
\* one row: the new [weighted, old_wt] for the cell cur, with aged the
\* weight old_wt * (1 - alpha) of the average after one more row
ewmBlend(cur, alpha, weighted, old_wt, aged) ==
  IF IsNaN(weighted)
  THEN [weighted |-> cur, old_wt |-> old_wt]
  ELSE IF IsNaN(cur)
  THEN [weighted |-> weighted, old_wt |-> aged]
  ELSE [weighted |-> IF Ne(weighted, cur)
                     THEN Div(Add(Mul(aged, weighted), Mul(alpha, cur)),
                              Add(aged, alpha))
                     ELSE weighted,
        old_wt |-> One]

ewmRow(cur, alpha, weighted, old_wt) ==
  ewmBlend(cur, alpha, weighted, old_wt, Mul(old_wt, Sub(One, alpha)))

RECURSIVE ewmFrom(_, _, _, _)
ewmEmit(x, alpha, j, st) == <<st.weighted>> \o ewmFrom(x, alpha, j + 1, st)

ewmFrom(x, alpha, j, st) ==
  IF j > Len(x) THEN <<>>
  ELSE ewmEmit(x, alpha, j, ewmRow(x[j], alpha, st.weighted, st.old_wt))

ewm_mean(x, alpha) == ewmFrom(x, alpha, 1, [weighted |-> NaN, old_wt |-> One])

\* the smoothing factor of ewm(span=N): 2 / (N + 1)
span_alpha(N) == Frac(2, N + 1)

\* the observations (non-NaN cells) of the trailing window ending at row i
RECURSIVE windowObs(_, _, _)
windowObs(x, lo, i) ==
  IF lo > i THEN <<>>
  ELSE (IF IsNaN(x[lo]) THEN <<>> ELSE <<x[lo]>>) \o windowObs(x, lo + 1, i)

RECURSIVE SumSeq(_)
SumSeq(s) == IF s = <<>> THEN Zero ELSE Add(Head(s), SumSeq(Tail(s)))

Sq(x) == Mul(x, x)

RECURSIVE SumSqDev(_, _)
SumSqDev(s, m) ==
  IF s = <<>> THEN Zero ELSE Add(Sq(Sub(Head(s), m)), SumSqDev(Tail(s), m))

MaxOf(a, b) == IF a > b THEN a ELSE b

\* mean and variance (ddof=0) of the observations of one window, NaN with
\* fewer than min_periods of them
MeanOf(obs, min_periods) ==
  IF Len(obs) < min_periods \/ obs = <<>> THEN NaN
  ELSE Div(SumSeq(obs), FromInt(Len(obs)))

SqDevMean(obs, m) == Div(SumSqDev(obs, m), FromInt(Len(obs)))

Var0Of(obs, min_periods) ==
  IF Len(obs) < min_periods \/ obs = <<>> THEN NaN
  ELSE SqDevMean(obs, MeanOf(obs, min_periods))

\* Series.rolling(window, min_periods).mean()
rolling_mean(x, window, min_periods) ==
  Col([i \in 1..Len(x) |->
        MeanOf(windowObs(x, MaxOf(1, i - window + 1), i), min_periods)])

\* Series.rolling(window, min_periods).std(ddof=0)
rolling_std0(x, window, min_periods) ==
  Col([i \in 1..Len(x) |->
        Sqrt(Var0Of(windowObs(x, MaxOf(1, i - window + 1), i), min_periods))])

(* Series.pct_change(periods): data / data.shift(periods) - 1, where data  *)
(* is the series forward-filled when the installed pandas still pads by    *)
(* default (fill_method="pad", pandas < 3) and the series itself otherwise. *)
pct_change(x, periods, pad) ==
  LET data == IF pad THEN ffill(x) ELSE x
      prev == shift(data, periods)
  IN  Col([i \in 1..Len(x) |-> Sub(Div(data[i], prev[i]), One)])

\* abs() of a cell
AbsV(x) == IF IsNaN(x) THEN NaN ELSE [x EXCEPT !.s = Abs(x.s)]

\* DataFrame.max(axis=1) over three columns: NaN cells are skipped
Max2(x, y) ==
  IF IsNaN(x) THEN y ELSE IF IsNaN(y) THEN x ELSE IF Gt(y, x) THEN y ELSE x
Max3(a, b, c) == Max2(Max2(a, b), c)

(***************************************************************************)
(* Program constants of calculate_indicators_and_flags.                    *)
(***************************************************************************)
EMA_FAST == 12
EMA_SLOW == 26
MACD_SIGNAL == 9
SMA_LONG == 50
SMA_SHORT == 20
MIN_PERIODS == 1
WILDER == 14
BB_K == 2
ROC_PERIODS == 9
VOL_PERIODS == 1
RSI_OVERBOUGHT == 70
RSI_OVERSOLD == 30
RSI_MID == 50
HUNDRED == 100
TP_DIV == 3

(***************************************************************************)
(* detect_cross(series_a, series_b): (cross_up, cross_down).               *)
(* The comparisons already give False where an operand is NaN (row 0 has   *)
(* NaN predecessors), so the two results hold booleans only and            *)
(* fillna(False) has nothing to fill.                                      *)
(***************************************************************************)
\* a plausible slip: the previous row compared strictly
detect_cross_strict(series_a, series_b) ==
  LET prev_a == shift(series_a, 1)
      prev_b == shift(series_b, 1)
      cross_up == Col([i \in 1..Len(series_a) |->
                     VGt(series_a[i], series_b[i]) /\ VLt(prev_a[i], prev_b[i])])
      cross_down == Col([i \in 1..Len(series_a) |->
                     VLt(series_a[i], series_b[i]) /\ VGt(prev_a[i], prev_b[i])])
  IN  <<cross_up, cross_down>>

\* a plausible slip: | in place of & between the two tests
detect_cross_or(series_a, series_b) ==
  LET prev_a == shift(series_a, 1)
      prev_b == shift(series_b, 1)
      cross_up == Col([i \in 1..Len(series_a) |->
                     VGt(series_a[i], series_b[i]) \/ VLe(prev_a[i], prev_b[i])])
      cross_down == Col([i \in 1..Len(series_a) |->
                     VLt(series_a[i], series_b[i]) \/ VGe(prev_a[i], prev_b[i])])
  IN  <<cross_up, cross_down>>

detect_cross(series_a, series_b) ==
  LET prev_a == shift(series_a, 1)
      prev_b == shift(series_b, 1)
      cross_up == Col([i \in 1..Len(series_a) |->
                     VGt(series_a[i], series_b[i]) /\ VLe(prev_a[i], prev_b[i])])
      cross_down == Col([i \in 1..Len(series_a) |->
                     VLt(series_a[i], series_b[i]) /\ VGe(prev_a[i], prev_b[i])])
  IN  <<cross_up, cross_down>>

\* Series.astype(int) of a boolean series
astype_int(b) == Col([i \in 1..Len(b) |-> IF b[i] THEN 1 ELSE 0])

(***************************************************************************)
(* Cells of the caller's frame: a float, or a string (a sequence of        *)
(* characters).  pd.to_numeric(errors="coerce") keeps a float, parses a    *)
(* string of decimal digits and turns any other string of the model's      *)
(* inputs (letters) into NaN.                                              *)
(***************************************************************************)
FloatCell(x) == [t |-> "float", x |-> x, s |-> <<>>]
StrCell(chars) == [t |-> "str", x |-> NaN, s |-> chars]

Digits == <<"0", "1", "2", "3", "4", "5", "6", "7", "8", "9">>
IsDigit(c) == \E d \in 1..Len(Digits) : Digits[d] = c
DigitOf(c) == (CHOOSE d \in 1..Len(Digits) : Digits[d] = c) - 1

RECURSIVE ParseDigits(_, _)
ParseDigits(chars, acc) ==
  IF chars = <<>> THEN acc
  ELSE ParseDigits(Tail(chars), acc * Len(Digits) + DigitOf(Head(chars)))

to_numeric(cell) ==
  IF cell.t = "float" THEN cell.x
  ELSE IF cell.s # <<>> /\ \A i \in 1..Len(cell.s) : IsDigit(cell.s[i])
       THEN FromInt(ParseDigits(cell.s, 0))
       ELSE NaN

(***************************************************************************)
(* calculate_indicators_and_flags                                          *)
(***************************************************************************)
OHLCV_COLS == <<"open", "high", "low", "close", "volume">>
PK_COLS == <<"ticker", "candle_time">>
OUTPUT_INDICATOR_COLS ==
  <<"ema12", "ema26", "macd_line", "macd_signal", "macd_hist", "sma50", "rsi14",
    "atr14", "roc9", "volume_pct_change_1", "sma20", "std20",
    "bb_upper", "bb_lower", "vwap">>
OUTPUT_FLAG_COLS ==
  <<"ema12_cross_ema26_up", "ema12_cross_ema26_down",
    "close_cross_sma50_up", "close_cross_sma50_down",
    "macd_cross_signal_up", "macd_cross_signal_down",
    "close_cross_upper_bb", "close_cross_lower_bb",
    "rsi_overbought", "rsi_oversold", "strong_trend">>

Range(s) == {s[i] : i \in 1..Len(s)}
RECURSIVE SelectSeq2(_, _)
\* [c for c in cols if c in present]
SelectSeq2(cols, present) ==
  IF cols = <<>> THEN <<>>
  ELSE (IF Head(cols) \in present THEN <<Head(cols)>> ELSE <<>>)
       \o SelectSeq2(Tail(cols), present)

OHLCV_SET == Range(OHLCV_COLS)
PK_SET == Range(PK_COLS)
IND_COLS == Range(OUTPUT_INDICATOR_COLS)
FLAG_COLS == Range(OUTPUT_FLAG_COLS)

(* df_result and the local series of the function body: a record from a     *)
(* name to a column.  Each statement of the body is an operator from the   *)
(* record before it to the record after it, named after what it assigns.   *)
\* df_result[name] = col: the column is replaced, or added as the last one
assign(d, name, col) ==
  IF name \in DOMAIN d THEN [d EXCEPT ![name] = col] ELSE d @@ (name :> col)
\* the index of the rows
index(d) == 1..Len(d.close)

\* step 1.1: the five candle columns coerced to numeric, one after the other
RECURSIVE numeric_col(_, _)
numeric_col(d, cols) ==
  IF cols = <<>> THEN d
  ELSE numeric_col(assign(d, Head(cols),
                          Col([i \in 1..Len(d[Head(cols)]) |->
                                 to_numeric(d[Head(cols)][i])])),
                   Tail(cols))

\* step 1.2: MACD
ema12(d) == assign(d, "ema12", ewm_mean(d.close, span_alpha(EMA_FAST)))
ema26(d) == assign(d, "ema26", ewm_mean(d.close, span_alpha(EMA_SLOW)))
macd_line(d) ==
  assign(d, "macd_line", Col([i \in index(d) |-> Sub(d.ema12[i], d.ema26[i])]))
macd_signal(d) ==
  assign(d, "macd_signal", ewm_mean(d.macd_line, span_alpha(MACD_SIGNAL)))
macd_hist(d) ==
  assign(d, "macd_hist",
         Col([i \in index(d) |-> Sub(d.macd_line[i], d.macd_signal[i])]))

\* step 1.3: SMA and Bollinger bands
sma50(d) == assign(d, "sma50", rolling_mean(d.close, SMA_LONG, MIN_PERIODS))
sma20(d) == assign(d, "sma20", rolling_mean(d.close, SMA_SHORT, MIN_PERIODS))
std20(d) == assign(d, "std20", rolling_std0(d.close, SMA_SHORT, MIN_PERIODS))
bb_upper(d) ==
  assign(d, "bb_upper",
         Col([i \in index(d) |-> VAdd(d.sma20[i], VScale(BB_K, d.std20[i]))]))
bb_lower(d) ==
  assign(d, "bb_lower",
         Col([i \in index(d) |-> VSub(d.sma20[i], VScale(BB_K, d.std20[i]))]))

\* step 1.4: RSI14 with Wilder smoothing
delta(d) == assign(d, "delta", diff(d.close))
up(d) == assign(d, "up", clip_lower0(d.delta))
down(d) ==
  assign(d, "down", Col([i \in index(d) |->
                           Mul(FromInt(-1), clip_upper0(d.delta)[i])]))
roll_up(d) == assign(d, "roll_up", ewm_mean(d.up, Frac(1, WILDER)))
roll_down(d) == assign(d, "roll_down", ewm_mean(d.down, Frac(1, WILDER)))
\* roll_down is 0 only as -0.0 in the code: then rs is -inf (or NaN for
\* 0 / -0.0) and 100 - 100 / (1 + rs) is 100, as for +inf here
rs(d) ==
  assign(d, "rs", Col([i \in index(d) |-> Div(d.roll_up[i], d.roll_down[i])]))
rsi14(d) ==
  assign(d, "rsi14",
         Col([i \in index(d) |->
                Sub(FromInt(HUNDRED), Div(FromInt(HUNDRED), Add(One, d.rs[i])))]))

\* step 1.5: ATR14
prev_close(d) == assign(d, "prev_close", shift(d.close, 1))
tr(d) ==
  assign(d, "tr",
         Col([i \in index(d) |->
                Max3(AbsV(Sub(d.high[i], d.low[i])),
                     AbsV(Sub(d.high[i], d.prev_close[i])),
                     AbsV(Sub(d.low[i], d.prev_close[i])))]))
atr14(d) == assign(d, "atr14", ewm_mean(d.tr, Frac(1, WILDER)))

\* steps 1.6 - 1.8: ROC9, volume change, VWAP of the candle
roc9(d, pad) == assign(d, "roc9", pct_change(d.close, ROC_PERIODS, pad))
volume_pct_change_1(d, pad) ==
  assign(d, "volume_pct_change_1", pct_change(d.volume, VOL_PERIODS, pad))
typical_price(d) ==
  assign(d, "typical_price",
         Col([i \in index(d) |->
                Div(Add(Add(d.high[i], d.low[i]), d.close[i]), FromInt(TP_DIV))]))
\* Series.replace({0: np.nan})
replace_zero(x) == IF Same(x, Zero) THEN NaN ELSE x
vwap(d) ==
  assign(d, "vwap",
         Col([i \in index(d) |->
                Div(Mul(d.typical_price[i], d.volume[i]), replace_zero(d.volume[i]))]))

\* steps 1.2 - 1.8 in the order of the code
indicators(d, pad) ==
  vwap(typical_price(volume_pct_change_1(roc9(
    atr14(tr(prev_close(
      rsi14(rs(roll_down(roll_up(down(up(delta(
        bb_lower(bb_upper(std20(sma20(sma50(
          macd_hist(macd_signal(macd_line(ema26(ema12(d)))))
        )))))
      )))))))
    ))),
  pad), pad)))

\* up, down = detect_cross(...); df_result[name] = x.astype(int) for both
assign_cross(d, up_name, down_name, pair) ==
  assign(assign(d, up_name, astype_int(pair[1])), down_name, astype_int(pair[2]))

\* steps 2.1 - 2.4: the cross flags
ema_cross(d) ==
  assign_cross(d, "ema12_cross_ema26_up", "ema12_cross_ema26_down",
               detect_cross(d.ema12, d.ema26))
sma50_cross(d) ==
  assign_cross(d, "close_cross_sma50_up", "close_cross_sma50_down",
               detect_cross(d.close, d.sma50))
macd_cross(d) ==
  assign_cross(d, "macd_cross_signal_up", "macd_cross_signal_down",
               detect_cross(d.macd_line, d.macd_signal))
bb_upper_up(d) ==
  assign(d, "close_cross_upper_bb", astype_int(detect_cross(d.close, d.bb_upper)[1]))
bb_lower_down(d) ==
  assign(d, "close_cross_lower_bb", astype_int(detect_cross(d.close, d.bb_lower)[2]))

\* step 2.5: RSI thresholds
rsi_overbought(d) ==
  assign(d, "rsi_overbought",
         astype_int([i \in index(d) |-> Gt(d.rsi14[i], FromInt(RSI_OVERBOUGHT))]))
rsi_oversold(d) ==
  assign(d, "rsi_oversold",
         astype_int([i \in index(d) |-> Lt(d.rsi14[i], FromInt(RSI_OVERSOLD))]))

\* step 2.6: strong trend
\* a plausible slip: the bullish branch without its close > sma50 test
bullish_no_sma(hist, rsi, close, sma) ==
  Gt(hist, Zero) /\ Gt(rsi, FromInt(RSI_MID))
bullish(hist, rsi, close, sma) ==
  Gt(hist, Zero) /\ Gt(rsi, FromInt(RSI_MID)) /\ Gt(close, sma)
bearish(hist, rsi, close, sma) ==
  Lt(hist, Zero) /\ Lt(rsi, FromInt(RSI_MID)) /\ Lt(close, sma)
strong_trend(d) ==
  assign(d, "strong_trend",
         astype_int([i \in index(d) |->
           \/ bullish(d.macd_hist[i], d.rsi14[i], d.close[i], d.sma50[i])
           \/ bearish(d.macd_hist[i], d.rsi14[i], d.close[i], d.sma50[i])]))

\* steps 2.1 - 2.6 in the order of the code
flags(d) ==
  strong_trend(rsi_oversold(rsi_overbought(
    bb_lower_down(bb_upper_up(macd_cross(sma50_cross(ema_cross(d))))))))

\* the first required column the coercion loop does not find, "" if none
RECURSIVE first_missing(_, _)
first_missing(cols, present) ==
  IF cols = <<>> THEN ""
  ELSE IF Head(cols) \notin present THEN Head(cols)
  ELSE first_missing(Tail(cols), present)

\* a plausible slip: the raw candle columns left out of the selection
final_cols_no_ohlcv(present) ==
  SelectSeq2(PK_COLS, present) \o OUTPUT_INDICATOR_COLS \o OUTPUT_FLAG_COLS

\* step 3: the columns of the returned frame, in order
final_cols(present) ==
  SelectSeq2(PK_COLS, present) \o OUTPUT_INDICATOR_COLS \o OUTPUT_FLAG_COLS \o OHLCV_COLS

\* a plausible slip: rows with an undefined close dropped before computing
copy_dropna(frame) ==
  [frame EXCEPT !.rows =
     SelectSeq(@, LAMBDA r : ~("close" \in DOMAIN r /\ IsNaN(to_numeric(r["close"]))))]

\* df.copy(): the same columns and rows, in a frame of its own
copy(frame) == frame

NoReturn == [status |-> "none", error |-> "", columns |-> <<>>, rows |-> <<>>]

\* the columns of a frame, each a sequence of cells
columns_of(frame) ==
  [c \in frame.columns |-> Col([i \in 1..Len(frame.rows) |-> frame.rows[i][c]])]

\* df_result[cols]: the frame of the chosen columns, row by row
select(d, cols, n) ==
  [status |-> "returned", error |-> "", columns |-> cols,
   rows |-> Col([i \in 1..n |-> [c \in Range(cols) |-> d[c][i]]])]

(* The call: a KeyError from df_result[c] when a candle column is absent    *)
(* (nothing is returned), else the frame of final_cols, one row per input  *)
(* row.                                                                    *)
run(df_result, pad) ==
  IF first_missing(OHLCV_COLS, df_result.columns) # ""
  THEN [status |-> "raised", error |-> "KeyError", columns |-> <<>>, rows |-> <<>>]
  ELSE select(flags(indicators(numeric_col(columns_of(df_result), OHLCV_COLS), pad)),
              final_cols(df_result.columns), Len(df_result.rows))

calculate_indicators_and_flags(frame, pad) == run(copy(frame), pad)

(***************************************************************************)
(* State: the caller's frame df, what the last call on it gave (ret), the  *)
(* pct_change default of the installed pandas (pad), whether the frame has *)
(* been passed a second time (again); and, for detect_cross taken alone,   *)
(* its two input series and its result (cross); and, for load_data_to_db,  *)
(* the database (db) and the call in progress (load).                      *)
(***************************************************************************)
VARIABLES df, ret, pad, again, series_a, series_b, cross, db, load

vars == <<df, ret, pad, again, series_a, series_b, cross, db, load>>

MaxLen == 3
MaxPrice == 3
MaxCrossLen == 5

ALL_COLS == PK_SET \cup OHLCV_SET

\* the frames the caller builds have all seven columns or lack one of them
ColumnSets == {ALL_COLS} \cup {ALL_COLS \ {c} : c \in ALL_COLS}

\* a candle with close p: the open as the exchange's numeric string, zero
\* volume at the lowest price
PricedCandle(p) ==
  [open |-> StrCell(<<Digits[p + 1]>>), high |-> FloatCell(FromInt(p + 1)),
   low |-> FloatCell(FromInt(p - 1)), close |-> FloatCell(FromInt(p)),
   volume |-> FloatCell(FromInt(p - 1))]

\* a candle without data: an unparsable open, NaN elsewhere
EmptyCandle ==
  [open |-> StrCell(<<"a", "b", "c">>), high |-> FloatCell(NaN),
   low |-> FloatCell(NaN), close |-> FloatCell(NaN), volume |-> FloatCell(NaN)]

\* a candle whose close is text that is no number, with a zero volume
\* given as a numeric string
GarbledCandle ==
  [open |-> FloatCell(One), high |-> FloatCell(FromInt(2)),
   low |-> FloatCell(Zero), close |-> StrCell(<<"a", "b", "c">>),
   volume |-> StrCell(<<"0">>)]

Candles == {PricedCandle(p) : p \in 1..MaxPrice} \cup {EmptyCandle, GarbledCandle}

TICKER == "BTCUSDT"

\* the row of candle c at time t, with the cells of the frame's columns
RowOf(c, t, columns) ==
  [col \in columns |-> IF col = "ticker" THEN TICKER
                       ELSE IF col = "candle_time" THEN t
                       ELSE c[col]]

NoCross == [status |-> "none", cross_up |-> <<>>, cross_down |-> <<>>]

\* cells of the series given to detect_cross alone: NaN or a small integer
RawCells(vals) == {[nan |-> TRUE, v |-> 0]} \cup {[nan |-> FALSE, v |-> x] : x \in vals}
CrossValsA == {1, 2, 3}
CrossValsB == {2}
Series(raw) == Col([i \in 1..Len(raw) |-> IF raw[i].nan THEN NaN ELSE FromInt(raw[i].v)])

(***************************************************************************)
(* load_data_to_db: the frame is split into its candle part and its        *)
(* indicator part; each part is uploaded to a table of its own, copied     *)
(* into its target table with INSERT IGNORE, and the upload table dropped, *)
(* all on one connection opened with engine.begin().  The statements are   *)
(* MySQL's (INSERT IGNORE): CREATE TABLE and DROP TABLE end the open       *)
(* transaction with a commit before they run.                              *)
(***************************************************************************)
\* the target table of each phase and the upload table of each phase
TARGET_TABLE == [kline |-> "kline_data", indicator |-> "technical_indicators"]
TEMP_TABLE == [kline |-> "temp_kline_upload", indicator |-> "temp_indicator_upload"]

\* the key of the target tables
table_key(row) == <<row.ticker, row.candle_time>>

\* ohlcv_df and indicator_df: the key and the columns of the frame that go
\* to a phase
frame_part(frame, phase) ==
  {[ticker |-> r.ticker, candle_time |-> r.candle_time,
    values |-> <<phase, r.values>>] : r \in frame}

\* a plausible slip: the UPSERT the comments speak of, which overwrites the
\* row stored under a key
INSERT_UPDATE(target, source) ==
  {s \in target : \A r \in source : table_key(r) # table_key(s)} \cup source

\* INSERT IGNORE INTO target SELECT ... FROM source: the rows of source whose
\* key is not in target are added
INSERT_IGNORE(target, source) ==
  target \cup {r \in source : \A s \in target : table_key(s) # table_key(r)}

\* the database: the target tables as the connection sees them (live) and
\* as committed (durable), and the upload tables of the call in progress
EmptyDb ==
  LET empty == [n \in {TARGET_TABLE[ph] : ph \in DOMAIN TARGET_TABLE} |-> {}]
  IN  [live |-> empty, durable |-> empty, temp |-> <<>>]

\* the commit that a CREATE TABLE or DROP TABLE brings with it
implicit_commit(d) == [d EXCEPT !.durable = d.live]

\* the rollback of engine.begin() on an exception: uncommitted rows go, of
\* the target tables and of the upload tables; the upload tables stay
rollback(d) ==
  [d EXCEPT !.live = d.durable, !.temp = [n \in DOMAIN @ |-> {}]]

NoLoad == [pc |-> "idle", phase |-> "kline", df |-> {}, repeat |-> FALSE,
           before |-> EmptyDb.durable]

Init ==
  /\ df \in {[columns |-> cs, rows |-> <<>>] : cs \in ColumnSets}
  /\ ret = NoReturn
  /\ pad \in BOOLEAN
  /\ again = FALSE
  /\ series_a = <<>>
  /\ series_b = <<>>
  /\ cross = NoCross
  /\ db = EmptyDb
  /\ load = NoLoad

\* the caller appends the next candle (ascending candle_time)
AppendCandle ==
  /\ Len(df.rows) < MaxLen
  /\ \E c \in Candles :
       df' = [df EXCEPT !.rows = Append(@, RowOf(c, Len(df.rows) + 1, df.columns))]
  /\ ret' = NoReturn
  /\ again' = FALSE
  /\ UNCHANGED <<pad, series_a, series_b, cross, db, load>>

\* the position of column c in the coercion loop (0 if it is not in it)
LoopPos(c) ==
  IF c \in OHLCV_SET THEN CHOOSE i \in 1..Len(OHLCV_COLS) : OHLCV_COLS[i] = c
  ELSE 0

\* a plausible slip: no copy, so the coercion loop writes into the caller's
\* frame, column by column, until it meets the missing one
frame_after_call_inplace(frame) ==
  LET missing == first_missing(OHLCV_COLS, frame.columns)
      coerced(c) == /\ c \in OHLCV_SET
                    /\ (missing = "" \/ LoopPos(c) < LoopPos(missing))
  IN  [frame EXCEPT !.rows =
         Col([i \in 1..Len(@) |->
               [c \in frame.columns |->
                  IF coerced(c) THEN FloatCell(to_numeric(@[i][c])) ELSE @[i][c]]])]

\* the caller's frame after the call: all writes went to the copy df_result
frame_after_call(frame) == frame

\* the caller runs calculate_indicators_and_flags(df)
Calculate ==
  /\ ret.status = "none"
  /\ ret' = calculate_indicators_and_flags(df, pad)
  /\ df' = frame_after_call(df)
  /\ UNCHANGED <<pad, again, series_a, series_b, cross, db, load>>

\* the caller runs calculate_indicators_and_flags(df) once more on the frame
\* it has already passed (the next pass of the loop over the same candles)
Recalculate ==
  /\ ret.status # "none"
  /\ ~again
  /\ ret' = calculate_indicators_and_flags(df, pad)
  /\ df' = frame_after_call(df)
  /\ again' = TRUE
  /\ UNCHANGED <<pad, series_a, series_b, cross, db, load>>

Next == AppendCandle \/ Calculate \/ Recalculate

Spec == Init /\ [][Next]_vars

(***************************************************************************)
(* detect_cross taken alone: two aligned series grown row by row, then the *)
(* call.                                                                   *)
(***************************************************************************)
InitCross ==
  /\ df = [columns |-> ALL_COLS, rows |-> <<>>]
  /\ ret = NoReturn
  /\ pad = FALSE
  /\ again = FALSE
  /\ series_a = <<>>
  /\ series_b = <<>>
  /\ cross = NoCross
  /\ db = EmptyDb
  /\ load = NoLoad

AppendPair ==
  /\ Len(series_a) < MaxCrossLen
  /\ \E x \in RawCells(CrossValsA), y \in RawCells(CrossValsB) :
       /\ series_a' = Append(series_a, x)
       /\ series_b' = Append(series_b, y)
  /\ cross' = NoCross
  /\ UNCHANGED <<df, ret, pad, again, db, load>>

DetectCross ==
  /\ cross.status = "none"
  /\ LET r == detect_cross(Series(series_a), Series(series_b))
     IN  cross' = [status |-> "returned", cross_up |-> r[1], cross_down |-> r[2]]
  /\ UNCHANGED <<df, ret, pad, again, series_a, series_b, db, load>>

NextCross == AppendPair \/ DetectCross

SpecCross == InitCross /\ [][NextCross]_vars

(***************************************************************************)
(* load_data_to_db taken alone: the loop passes it one frame after the     *)
(* other; any statement of a call may fail.                                *)
(***************************************************************************)
MaxTime == 2

\* the frames passed to the load: never empty (the loop skips an empty
\* frame), one row per candle_time (one candle per interval); a row carries
\* its key and the values of its other columns, which are one of two
Frames ==
  LET Rows == {[ticker |-> TICKER, candle_time |-> t, values |-> v] :
                 t \in 1..MaxTime, v \in {"p", "q"}}
  IN  {f \in SUBSET Rows :
         f # {} /\ \A r, q \in f : r.candle_time = q.candle_time => r = q}

InitLoad ==
  /\ df = [columns |-> ALL_COLS, rows |-> <<>>]
  /\ ret = NoReturn
  /\ pad = FALSE
  /\ again = FALSE
  /\ series_a = <<>>
  /\ series_b = <<>>
  /\ cross = NoCross
  /\ db = EmptyDb
  /\ load = NoLoad

\* load_data_to_db(transformed_data, engine) is called: the names of the
\* upload tables are new (unique_suffix), the transaction is opened
BeginLoad ==
  /\ load.pc \in {"idle", "done", "raised"}
  /\ \E f \in Frames :
       load' = [pc |-> "to_sql", phase |-> "kline", df |-> f,
                repeat |-> (load.pc = "done" /\ load.df = f),
                before |-> db.durable]
  /\ db' = [db EXCEPT !.temp = <<>>]
  /\ UNCHANGED <<df, ret, pad, again, series_a, series_b, cross>>

\* to_sql(TEMP, con=connection, if_exists="replace"): CREATE TABLE, then the
\* rows of the part
Upload ==
  /\ load.pc = "to_sql"
  /\ db' = [implicit_commit(db) EXCEPT
              !.temp = (TEMP_TABLE[load.phase] :> frame_part(load.df, load.phase)) @@ @]
  /\ load' = [load EXCEPT !.pc = "upsert"]
  /\ UNCHANGED <<df, ret, pad, again, series_a, series_b, cross>>

\* connection.execute(upsert_kline_sql), connection.execute(upsert_indicator_sql)
Upsert ==
  /\ load.pc = "upsert"
  /\ db' = [db EXCEPT !.live[TARGET_TABLE[load.phase]] =
                        INSERT_IGNORE(@, db.temp[TEMP_TABLE[load.phase]])]
  /\ load' = [load EXCEPT !.pc = "drop"]
  /\ UNCHANGED <<df, ret, pad, again, series_a, series_b, cross>>

\* DROP TABLE IF EXISTS TEMP; the indicator phase follows the candle phase
DropTemp ==
  /\ load.pc = "drop"
  /\ db' = [implicit_commit(db) EXCEPT
              !.temp = [n \in DOMAIN @ \ {TEMP_TABLE[load.phase]} |-> @[n]]]
  /\ load' = IF load.phase = "kline"
             THEN [load EXCEPT !.pc = "to_sql", !.phase = "indicator"]
             ELSE [load EXCEPT !.pc = "commit"]
  /\ UNCHANGED <<df, ret, pad, again, series_a, series_b, cross>>

\* the with block ends: commit, "Both tables successfully updated."
Commit ==
  /\ load.pc = "commit"
  /\ db' = [db EXCEPT !.durable = db.live]
  /\ load' = [load EXCEPT !.pc = "done"]
  /\ UNCHANGED <<df, ret, pad, again, series_a, series_b, cross>>

\* the statement at hand fails: the transaction is rolled back and the
\* exception raised again.  A failed to_sql may have created its table; a
\* failed DROP TABLE may have committed before it failed.
Raise ==
  /\ load.pc \in {"to_sql", "upsert", "drop"}
  /\ \E begun \in BOOLEAN :
       db' = IF load.pc = "to_sql" /\ begun
               THEN rollback([implicit_commit(db) EXCEPT
                                !.temp = (TEMP_TABLE[load.phase] :> {}) @@ @])
             ELSE IF load.pc = "drop" /\ begun
               THEN rollback(implicit_commit(db))
             ELSE rollback(db)
  /\ load' = [load EXCEPT !.pc = "raised"]
  /\ UNCHANGED <<df, ret, pad, again, series_a, series_b, cross>>

NextLoad == BeginLoad \/ Upload \/ Upsert \/ DropTemp \/ Commit \/ Raise

SpecLoad == InitLoad /\ [][NextLoad]_vars

(***************************************************************************)
(* Properties                                                              *)
(***************************************************************************)
Returned == ret.status = "returned"
NRows == Len(df.rows)
HasCandleCols(frame) == OHLCV_SET \subseteq frame.columns
InCol(c, i) == to_numeric(df.rows[i][c])
Out(i, c) == ret.rows[i][c]
Prefix(frame, k) == [frame EXCEPT !.rows = SubSeq(@, 1, k)]

\* C1: causality as a prefix property: rows 1..k of the output on the whole
\* series are, in every indicator and flag column, the output on the first
\* k rows alone, for every k short of the length of the series (at k equal
\* to the length the two sides are one and the same call).
C1_Causality ==
  Returned =>
    \A k \in 1..(NRows - 1) :
      LET p == calculate_indicators_and_flags(Prefix(df, k), pad)
      IN  /\ p.status = "returned"
          /\ Len(p.rows) = k
          /\ \A i \in 1..k :
               /\ \A c \in IND_COLS : VSame(p.rows[i][c], Out(i, c))
               /\ \A c \in FLAG_COLS : p.rows[i][c] = Out(i, c)

\* a series of three rows or more whose later rows move the averages on and
\* whose second row already carries a cross
C1_Witness ==
  /\ Returned
  /\ NRows >= 3
  /\ Out(2, "ema12_cross_ema26_up") = 1
  /\ ~VSame(Out(3, "ema12"), Out(2, "ema12"))
  /\ ~IsNaN(Out(3, "ema12"))

\* the one row t >= 2 at which close is NaN, all other closes being numbers
SingleNaNAt(t) ==
  /\ t \in 2..NRows
  /\ IsNaN(InCol("close", t))
  /\ \A j \in (1..NRows) \ {t} : ~IsNaN(InCol("close", j))

\* C3: a single NaN close at row t >= 2 makes ema12, ema26, macd_line,
\* macd_signal, macd_hist, sma20, sma50 and rsi14 NaN at row t, and at every
\* later row that the recurrence (EMA, MACD, RSI: all later rows) or the
\* trailing window (SMA: the next 20 or 50 rows) reaches.
C3_NaNPropagates ==
  Returned =>
    \A t \in 1..NRows :
      SingleNaNAt(t) =>
        \A u \in t..NRows :
          /\ \A c \in {"ema12", "ema26", "macd_line", "macd_signal", "macd_hist",
                       "rsi14"} : IsNaN(Out(u, c))
          /\ u < t + SMA_SHORT => IsNaN(Out(u, "sma20"))
          /\ u < t + SMA_LONG => IsNaN(Out(u, "sma50"))

\* C4: at every row whose close is NaN, each of the eleven flags is 0.
C4_FlagsZeroOnNaN ==
  Returned =>
    \A t \in 1..NRows :
      IsNaN(InCol("close", t)) => \A f \in FLAG_COLS : Out(t, f) = 0

\* C5: the call returns, and a zero lagged denominator (volume one row
\* back, close nine rows back) gives NaN in volume_pct_change_1 and roc9.
C5_ZeroDenominatorNaN ==
  (ret.status # "none" /\ HasCandleCols(df)) =>
    /\ Returned
    /\ \A t \in 1..NRows :
         /\ (t > VOL_PERIODS /\ Same(InCol("volume", t - VOL_PERIODS), Zero))
              => IsNaN(Out(t, "volume_pct_change_1"))
         /\ (t > ROC_PERIODS /\ Same(InCol("close", t - ROC_PERIODS), Zero))
              => IsNaN(Out(t, "roc9"))

\* a step in which the call is made
CallStep == ret.status = "none" /\ ret'.status # "none"

\* C7 (as the code has it): with a candle column absent the call raises
\* KeyError, returns no frame, and leaves the caller's frame as it was.
C7_KeyError ==
  [][(CallStep /\ ~HasCandleCols(df)) =>
       /\ ret'.status = "raised"
       /\ ret'.error = "KeyError"
       /\ ret'.columns = <<>>
       /\ ret'.rows = <<>>
       /\ df' = df]_vars

\* C7 (as claimed): with a candle column absent the call fails with a
\* SchemaError, returns no frame, and leaves the caller's frame as it was.
C7_SchemaError ==
  [][(CallStep /\ ~HasCandleCols(df)) =>
       /\ ret'.status = "raised"
       /\ ret'.error = "SchemaError"
       /\ ret'.columns = <<>>
       /\ ret'.rows = <<>>
       /\ df' = df]_vars

\* the call has failed on a frame of two rows that lacks close, after the
\* loop had already passed open, high and low
C7_Witness ==
  /\ ret.status = "raised"
  /\ "close" \notin df.columns
  /\ NRows >= 2
  /\ \E i \in 1..NRows : df.rows[i]["open"].t = "str"

FULL_SCHEMA ==
  <<"ticker", "candle_time",
    "ema12", "ema26", "macd_line", "macd_signal", "macd_hist", "sma50", "rsi14",
    "atr14", "roc9", "volume_pct_change_1", "sma20", "std20", "bb_upper",
    "bb_lower", "vwap",
    "ema12_cross_ema26_up", "ema12_cross_ema26_down", "close_cross_sma50_up",
    "close_cross_sma50_down", "macd_cross_signal_up", "macd_cross_signal_down",
    "close_cross_upper_bb", "close_cross_lower_bb", "rsi_overbought",
    "rsi_oversold", "strong_trend",
    "open", "high", "low", "close", "volume">>

\* C8: on a zero-row frame that has the candle columns the call returns a
\* zero-row frame with the whole schema: the key columns the input has, the
\* 15 indicator columns, the 11 flag columns and the 5 candle columns.
C8_EmptyFrame ==
  (ret.status # "none" /\ NRows = 0 /\ HasCandleCols(df)) =>
    /\ Returned
    /\ ret.rows = <<>>
    /\ ret.columns =
         SelectSeq(FULL_SCHEMA, LAMBDA c : c \in df.columns \/ c \notin {"ticker", "candle_time"})
    /\ Len(ret.columns) = Cardinality(df.columns \cap {"ticker", "candle_time"}) + 15 + 11 + 5

C8_Witness ==
  /\ Returned
  /\ df.rows = <<>>
  /\ df.columns = ALL_COLS
  /\ ret.rows = <<>>
  /\ Len(ret.columns) = 33

C10_FirstRowNoFlag ==
  (Returned /\ NRows >= 1) => \A f \in FLAG_COLS : Out(1, f) = 0

\* a returned frame whose first close is a number and whose second row has
\* a flag set
C10_Witness ==
  /\ Returned
  /\ NRows >= 2
  /\ ~IsNaN(Out(1, "close"))
  /\ \E f \in FLAG_COLS : Out(2, f) = 1
  /\ \A f \in FLAG_COLS : Out(1, f) = 0

(***************************************************************************)
(* detect_cross alone                                                      *)
(***************************************************************************)
Crossed == cross.status = "returned"
RawGt(x, y) == ~x.nan /\ ~y.nan /\ x.v > y.v
RawLt(x, y) == ~x.nan /\ ~y.nan /\ x.v < y.v
RawGe(x, y) == ~x.nan /\ ~y.nan /\ x.v >= y.v
RawLe(x, y) == ~x.nan /\ ~y.nan /\ x.v <= y.v
RawSeq(ints) == [i \in 1..Len(ints) |-> [nan |-> FALSE, v |-> ints[i]]]

\* C2: both results have the inputs' length; from the second row on
\* cross_up[t] = (a[t] > b[t]) and (a[t-1] <= b[t-1]), cross_down[t] =
\* (a[t] < b[t]) and (a[t-1] >= b[t-1]); both are false on the first row;
\* a = [1,2,3,2,1], b = [2,2,2,2,2] gives [F,F,T,F,F] and [F,F,F,F,T].
C2_CrossDefinition ==
  Crossed =>
    /\ Len(cross.cross_up) = Len(series_a)
    /\ Len(cross.cross_down) = Len(series_a)
    /\ \A t \in 2..Len(series_a) :
         /\ cross.cross_up[t] =
              (RawGt(series_a[t], series_b[t]) /\ RawLe(series_a[t - 1], series_b[t - 1]))
         /\ cross.cross_down[t] =
              (RawLt(series_a[t], series_b[t]) /\ RawGe(series_a[t - 1], series_b[t - 1]))
    /\ Len(series_a) >= 1 => (cross.cross_up[1] = FALSE /\ cross.cross_down[1] = FALSE)
    /\ (series_a = RawSeq(<<1, 2, 3, 2, 1>>) /\ series_b = RawSeq(<<2, 2, 2, 2, 2>>))
         => /\ cross.cross_up = <<FALSE, FALSE, TRUE, FALSE, FALSE>>
            /\ cross.cross_down = <<FALSE, FALSE, FALSE, FALSE, TRUE>>

C2_Witness ==
  /\ Crossed
  /\ series_a = RawSeq(<<1, 2, 3, 2, 1>>)
  /\ series_b = RawSeq(<<2, 2, 2, 2, 2>>)
  /\ cross.cross_up = <<FALSE, FALSE, TRUE, FALSE, FALSE>>
  /\ cross.cross_down = <<FALSE, FALSE, FALSE, FALSE, TRUE>>

\* row t has a NaN among a[t], b[t], a[t-1], b[t-1]
NaNOperand(t) ==
  \/ series_a[t].nan
  \/ series_b[t].nan
  \/ t > 1 /\ (series_a[t - 1].nan \/ series_b[t - 1].nan)

\* C6: on a row with a NaN among a[t], b[t], a[t-1], b[t-1] both results are
\* false; the results hold booleans only, so a flag cast from them is 0 or 1.
C6_NaNNeverCrosses ==
  Crossed =>
    \A t \in 1..Len(series_a) :
      /\ NaNOperand(t) => (cross.cross_up[t] = FALSE /\ cross.cross_down[t] = FALSE)
      /\ cross.cross_up[t] \in BOOLEAN
      /\ cross.cross_down[t] \in BOOLEAN
      /\ astype_int(cross.cross_up)[t] \in {0, 1}
      /\ astype_int(cross.cross_down)[t] \in {0, 1}

\* a above b on a row whose predecessor is NaN: no cross, though a later
\* row of the same series does cross
C6_Witness ==
  /\ Crossed
  /\ \E t \in 2..Len(series_a) :
       /\ series_a[t - 1].nan
       /\ RawGt(series_a[t], series_b[t])
       /\ cross.cross_up[t] = FALSE
  /\ \E u \in 2..Len(series_a) : cross.cross_up[u] = TRUE

(***************************************************************************)
(* RSI saturation, strong trend, repeated calls, constant and short series *)
(***************************************************************************)
\* the body of the call on df up to its local series roll_up and roll_down
Body ==
  roll_down(roll_up(down(up(delta(numeric_col(columns_of(copy(df)), OHLCV_COLS))))))

\* every close is a number and each is above the one before
StrictlyIncreasing ==
  /\ \A j \in 1..NRows : IsFin(InCol("close", j))
  /\ \A j \in 2..NRows : Cmp(InCol("close", j - 1), InCol("close", j)) = -1

\* C11: where the smoothed down-move is 0 and the smoothed up-move is above
\* 0, rsi14 is 100; where both are 0, rsi14 is NaN; so on a strictly
\* increasing close rsi14 is 100 from the second row on, with rsi_overbought
\* 1 and rsi_oversold 0 there.
C11_RsiSaturation ==
  Returned =>
    LET b == Body
    IN  /\ \A i \in 1..NRows :
             (IsFin(b.roll_down[i]) /\ b.roll_down[i].s = 0 /\ IsFin(b.roll_up[i]))
               => IF b.roll_up[i].s > 0
                  THEN Same(Out(i, "rsi14"), FromInt(HUNDRED))
                  ELSE IsNaN(Out(i, "rsi14"))
        /\ StrictlyIncreasing =>
             \A t \in 2..NRows :
               /\ Same(Out(t, "rsi14"), FromInt(HUNDRED))
               /\ Out(t, "rsi_overbought") = 1
               /\ Out(t, "rsi_oversold") = 0

\* a returned frame of three rising closes, overbought on its last row
C11_Witness ==
  /\ Returned
  /\ NRows = 3
  /\ StrictlyIncreasing
  /\ Out(3, "rsi_overbought") = 1
  /\ Same(Out(2, "rsi14"), FromInt(HUNDRED))

\* x above y, x below y: false when either is NaN
Above(x, y) == ~IsNaN(x) /\ ~IsNaN(y) /\ Cmp(x, y) = 1
Below(x, y) == ~IsNaN(x) /\ ~IsNaN(y) /\ Cmp(y, x) = 1
TrendUp(i) ==
  /\ Above(Out(i, "macd_hist"), Zero)
  /\ Above(Out(i, "rsi14"), FromInt(50))
  /\ Above(Out(i, "close"), Out(i, "sma50"))
TrendDown(i) ==
  /\ Below(Out(i, "macd_hist"), Zero)
  /\ Below(Out(i, "rsi14"), FromInt(50))
  /\ Below(Out(i, "close"), Out(i, "sma50"))
TrendOperandNaN(i) ==
  \E c \in {"macd_hist", "rsi14", "close", "sma50"} : IsNaN(Out(i, c))

\* C12: strong_trend is 1 at a row exactly when macd_hist > 0, rsi14 > 50
\* and close > sma50 there, or macd_hist < 0, rsi14 < 50 and close < sma50
\* there; it is 0 otherwise, and 0 whenever one of the four is NaN.
C12_StrongTrend ==
  Returned =>
    \A i \in 1..NRows :
      /\ Out(i, "strong_trend") \in {0, 1}
      /\ Out(i, "strong_trend") = 1 <=> (TrendUp(i) \/ TrendDown(i))
      /\ TrendOperandNaN(i) => Out(i, "strong_trend") = 0

\* a returned frame with a trend row, a row of numbers without trend and a
\* row with a NaN operand
C12_Witness ==
  /\ Returned
  /\ \E i \in 1..NRows : Out(i, "strong_trend") = 1 /\ TrendUp(i)
  /\ \E i \in 1..NRows : Out(i, "strong_trend") = 0 /\ ~TrendOperandNaN(i)
  /\ \E i \in 1..NRows : Out(i, "strong_trend") = 0 /\ TrendOperandNaN(i)

\* a returned frame with a falling trend row
C12_WitnessDown ==
  Returned /\ \E i \in 1..NRows : Out(i, "strong_trend") = 1 /\ TrendDown(i)

\* a step in which the frame is passed a second time
SecondCallStep == ret.status # "none" /\ ~again /\ again'

C13_WitnessRaised ==
  again /\ ret.status = "raised" /\ NRows >= 1

\* every close is a number and all closes are that number
ConstantClose ==
  /\ NRows >= 1
  /\ \A j \in 1..NRows :
       IsFin(InCol("close", j)) /\ Cmp(InCol("close", j), InCol("close", 1)) = 0

CROSS_FLAGS ==
  {"ema12_cross_ema26_up", "ema12_cross_ema26_down",
   "close_cross_sma50_up", "close_cross_sma50_down",
   "macd_cross_signal_up", "macd_cross_signal_down",
   "close_cross_upper_bb", "close_cross_lower_bb"}

\* C14: on a constant close, at every row rsi14 is NaN, macd_hist is 0,
\* bb_upper, bb_lower and sma20 equal close, none of the eight cross flags is
\* 1, and rsi_overbought, rsi_oversold and strong_trend are 0.
C14_ConstantClose ==
  (Returned /\ ConstantClose) =>
    \A i \in 1..NRows :
      /\ IsNaN(Out(i, "rsi14"))
      /\ Same(Out(i, "macd_hist"), Zero)
      /\ VSame(Out(i, "bb_upper"), Out(i, "close"))
      /\ VSame(Out(i, "bb_lower"), Out(i, "close"))
      /\ VSame(Out(i, "sma20"), Out(i, "close"))
      /\ \A f \in CROSS_FLAGS : Out(i, f) = 0
      /\ Out(i, "rsi_overbought") = 0
      /\ Out(i, "rsi_oversold") = 0
      /\ Out(i, "strong_trend") = 0

\* a returned frame of three candles with the same close
C14_Witness ==
  /\ Returned
  /\ NRows = 3
  /\ ConstantClose
  /\ Cmp(Out(3, "close"), FromInt(2)) = 0

\* alpha * x + (1 - alpha) * prev in float arithmetic
Recurrence(alpha, x, prev) == Add(Mul(alpha, x), Mul(Sub(One, alpha), prev))

\* column ema follows the recurrence on column x from the second row on
FollowsRecurrence(ema, x, alpha) ==
  \A t \in 2..NRows :
    Same(Out(t, ema), Recurrence(alpha, Out(t, x), Out(t - 1, ema)))

SeededAtRow0 ==
  /\ Same(Out(1, "ema12"), Out(1, "close"))
  /\ Same(Out(1, "ema26"), Out(1, "close"))
  /\ Same(Out(1, "macd_line"), Zero)
  /\ Same(Out(1, "macd_signal"), Zero)
  /\ Same(Out(1, "macd_hist"), Zero)

StartNaN ==
  /\ \A t \in 1..NRows : t <= 9 => IsNaN(Out(t, "roc9"))
  /\ NRows >= 1 => IsNaN(Out(1, "volume_pct_change_1"))

LengthOne ==
  NRows = 1 =>
    /\ \A f \in CROSS_FLAGS : Out(1, f) = 0
    /\ IsNaN(Out(1, "roc9"))
    /\ IsNaN(Out(1, "volume_pct_change_1"))
    /\ Same(Out(1, "ema12"), Out(1, "close"))
    /\ Same(Out(1, "ema26"), Out(1, "close"))

\* C15: with a numeric first close, ema12 = ema26 = close at row 0 and
\* macd_line = macd_signal = macd_hist = 0 there, and from row 1 on each EMA
\* is alpha * x[t] + (1 - alpha) * ema[t-1]; roc9 is NaN at rows 0..8 and
\* volume_pct_change_1 at row 0; a frame of one row has every cross flag 0,
\* roc9 and volume_pct_change_1 NaN and ema12 = ema26 = close.
C15_Seeding ==
  Returned =>
    /\ (NRows >= 1 /\ IsFin(InCol("close", 1))) =>
         /\ SeededAtRow0
         /\ FollowsRecurrence("ema12", "close", Frac(2, 13))
         /\ FollowsRecurrence("ema26", "close", Frac(2, 27))
         /\ FollowsRecurrence("macd_signal", "macd_line", Frac(2, 10))
    /\ StartNaN
    /\ LengthOne

\* the same with the recurrence required on frames of numeric closes only
C15_SeedingOnNumbers ==
  Returned =>
    /\ (NRows >= 1 /\ \A t \in 1..NRows : IsFin(InCol("close", t))) =>
         /\ SeededAtRow0
         /\ FollowsRecurrence("ema12", "close", Frac(2, 13))
         /\ FollowsRecurrence("ema26", "close", Frac(2, 27))
         /\ FollowsRecurrence("macd_signal", "macd_line", Frac(2, 10))
    /\ StartNaN
    /\ LengthOne

(***************************************************************************)
(* The order of cross events                                               *)
(***************************************************************************)
CrossRows == 1..Len(series_a)
NaNAt(t) == series_a[t].nan \/ series_b[t].nan

\* between two true rows of flag there is a row where back(a[t], b[t]) holds
\* or an operand is NaN
Separated(flag, back(_, _)) ==
  \A s, u \in CrossRows :
    (s < u /\ flag[s] /\ flag[u]) =>
      \E t \in (s + 1)..(u - 1) : back(series_a[t], series_b[t]) \/ NaNAt(t)

\* C18: cross_up and cross_down are never both true at a row; neither is
\* true at two consecutive rows; between two rows where cross_up is true
\* there is a row with a[t] <= b[t] or a NaN operand, and between two rows
\* where cross_down is true a row with a[t] >= b[t] or a NaN operand.
C18_CrossOrdering ==
  Crossed =>
    /\ \A t \in CrossRows : ~(cross.cross_up[t] /\ cross.cross_down[t])
    /\ \A t \in CrossRows \ {1} :
         /\ ~(cross.cross_up[t - 1] /\ cross.cross_up[t])
         /\ ~(cross.cross_down[t - 1] /\ cross.cross_down[t])
    /\ Separated(cross.cross_up, RawLe)
    /\ Separated(cross.cross_down, RawGe)

\* a crosses above b twice and below it twice
C18_Witness ==
  /\ Crossed
  /\ \E s, u \in CrossRows : s < u /\ cross.cross_up[s] /\ cross.cross_up[u]
  /\ \E s, u \in CrossRows : s < u /\ cross.cross_down[s] /\ cross.cross_down[u]

(***************************************************************************)
(* The load                                                                *)
(***************************************************************************)
Phases == DOMAIN TARGET_TABLE
Targets == {TARGET_TABLE[ph] : ph \in Phases}

UniqueKeys(table) ==
  \A r, s \in table : table_key(r) = table_key(s) => r = s

\* every row of the frame has its key in both target tables
BothInserted ==
  \A ph \in Phases :
    \A r \in frame_part(load.df, ph) :
      \E s \in db.durable[TARGET_TABLE[ph]] : table_key(s) = table_key(r)

\* C16: each target table holds at most one row per (ticker, candle_time);
\* a frame loaded again right after its successful load leaves both tables
\* as they were; a stored row is never changed or removed by a later load.
C16_IdempotentLoad ==
  /\ [](\A n \in Targets : UniqueKeys(db.durable[n]) /\ UniqueKeys(db.live[n]))
  /\ []((load.pc = "done" /\ load.repeat) => db.durable = load.before)
  /\ [][\A n \in Targets : db.durable[n] \subseteq db'.durable[n]]_vars

\* a frame has been loaded twice in a row, and one of its rows is stored
\* with the values an earlier frame gave it
C16_Witness ==
  /\ load.pc = "done"
  /\ load.repeat
  /\ \E r \in frame_part(load.df, "kline") :
       \E s \in db.durable[TARGET_TABLE["kline"]] :
         table_key(s) = table_key(r) /\ s.values # r.values

\* C17: a call that has ended has stored the frame in both target tables or
\* changed neither; a call that raised has changed neither; no upload table
\* is left when the call has ended.
C17_AtomicLoad ==
  /\ load.pc \in {"done", "raised"} =>
       /\ BothInserted \/ db.durable = load.before
       /\ DOMAIN db.temp = {}
  /\ load.pc = "raised" => db.durable = load.before
  /\ load.pc = "done" => BothInserted

\* the call raised in its indicator phase: the candle rows are stored, the
\* indicator rows are not
C17_PartialLoad ==
  /\ load.pc = "raised"
  /\ load.phase = "indicator"
  /\ db.durable[TARGET_TABLE["kline"]] # load.before[TARGET_TABLE["kline"]]
  /\ db.durable[TARGET_TABLE["indicator"]] = load.before[TARGET_TABLE["indicator"]]
====
